---- MODULE Spec2Model ----
(***************************************************************************)
(* The interactive viewer of vape4d (src/src/lib.rs): WindowContext (the   *)
(* engine state), its operations new, load_file, resize, update and        *)
(* render, and the winit event loop of open_window that drives them.       *)
(*                                                                         *)
(* Every event handler of open_window is one action.  The handler of       *)
(* RedrawRequested calls update, then render, then matches on render's     *)
(* result; the calls it makes and the GPU passes it encodes are recorded   *)
(* in the variable frame.                                                  *)
(***************************************************************************)
EXTENDS Integers, Sequences, FiniteSets, TLC

(***************************************************************************)
(* Bounds of the model.                                                    *)
(***************************************************************************)
\* Window widths range over 0..MaxWidth and heights over 0..MaxHeight.
MaxWidth == 2
MaxHeight == 1
\* A frame's dt ranges over 0..MaxDt ticks.
MaxDt == 2
\* The animation duration ranges over 1..MaxDuration ticks.
MaxDuration == 3
\* The float format of the model: MantBits significant bits, and a smallest
\* step of 2^-FracBits (f32 has 24 significant bits).
MantBits == 3
FracBits == 3

\* device.limits().max_texture_dimension_2d of the model's device: window
\* widths go beyond it.
max_texture_dimension_2d == 1

(***************************************************************************)
(* Program constants.                                                      *)
(***************************************************************************)
\* lib.rs:141  size = PhysicalSize::new(800, 600)
DefaultWidth == 800
DefaultHeight == 600

\* Option<T>: None is the empty sequence and Some(x) the sequence of x.
None == <<>>
Some(x) == <<x>>

(***************************************************************************)
(* Arithmetic helpers.                                                     *)
(***************************************************************************)
RECURSIVE Pow2(_)
Pow2(n) == IF n = 0 THEN 1 ELSE 2 * Pow2(n - 1)

RECURSIVE BitLen(_)
BitLen(n) == IF n = 0 THEN 0 ELSE 1 + BitLen(n \div 2)

Abs(x) == IF x < 0 THEN -x ELSE x

\* The least r with r * r >= n.
RECURSIVE SqrtCeilFrom(_, _)
SqrtCeilFrom(n, r) == IF r * r >= n THEN r ELSE SqrtCeilFrom(n, r + 1)
SqrtCeil(n) == SqrtCeilFrom(n, 0)

(***************************************************************************)
(* Floats.  A float is a number m * 2^-FracBits, held as the integer m,    *)
(* with at most MantBits significant bits.  FloatRound(num, den) is the    *)
(* float nearest to the rational num/den (in units of 2^-FracBits), ties   *)
(* to even, as every f32 operation rounds its exact result.                *)
(***************************************************************************)
FloatOne == Pow2(FracBits)

FloatUnit(num, den) ==
    LET len == BitLen(num \div den)
    IN  IF len <= MantBits THEN 1 ELSE Pow2(len - MantBits)

FloatRound(num, den) ==
    LET unit == FloatUnit(num, den)
        d    == den * unit
        down == num \div d
        rem  == num % d
        up   == IF 2 * rem > d THEN 1
                ELSE IF 2 * rem < d THEN 0
                ELSE down % 2
    IN  (down + up) * unit

IsExact(num, den) == FloatRound(num, den) * den = num

\* a / b on floats (f32 division).
FloatDiv(a, b) == FloatRound(a * FloatOne, b)
\* a + b on floats (f32 addition).
FloatAdd(a, b) == FloatRound(a + b, 1)
\* f32::fract of a non-negative float: x - trunc(x), which is exact.
FloatFract(a) == a % FloatOne
\* Duration::as_secs_f32 of a duration of t ticks.
AsSecsF32(t) == FloatRound(t * FloatOne, 1)

(***************************************************************************)
(* Data.                                                                   *)
(***************************************************************************)
PhysicalSize(w, h) == [width |-> w, height |-> h]
WindowSizes == {PhysicalSize(w, h) : w \in 0..MaxWidth, h \in 0..MaxHeight}

Vec(x, y) == <<x, y>>
Aabb(min, max) == [min |-> min, max |-> max]

\* The volumes a file can hold: an AABB and a number of timesteps.
Aabbs == {Aabb(Vec(-1, -1), Vec(1, 1)), Aabb(Vec(0, -1), Vec(2, 1))}
Volumes == [aabb : Aabbs, timesteps : {1, 2}]

AabbCenter(aabb) ==
    Vec((aabb.min[1] + aabb.max[1]) \div 2, (aabb.min[2] + aabb.max[2]) \div 2)

\* Twice the radius of the AABB's bounding sphere: its diagonal, rounded up.
AabbDiameter(aabb) ==
    LET dx == aabb.max[1] - aabb.min[1]
        dy == aabb.max[2] - aabb.min[2]
    IN  SqrtCeil(dx * dx + dy * dy)

AabbCorners(aabb) ==
    {Vec(x, y) : x \in {aabb.min[1], aabb.max[1]}, y \in {aabb.min[2], aabb.max[2]}}

(***************************************************************************)
(* Camera and projection (camera.rs).  The view plane is two-dimensional:  *)
(* the camera looks at position, and the orthographic projection shows     *)
(* viewport_y world units vertically and viewport_y * width / height       *)
(* horizontally.                                                           *)
(***************************************************************************)
\* OrthographicProjection::new(Vector2::new(ratio, 1.) * extent, ..) with
\* ratio = width / height.
OrthographicProjection(width, height, extent) ==
    [viewport_y |-> extent, width |-> width, height |-> height]

\* Projection::resize: the aspect ratio is recomputed, the vertical extent kept.
ProjectionResize(projection, width, height) ==
    [projection EXCEPT !.width = width, !.height = height]

\* Camera::new_aabb_iso: centred on the AABB's centre.
NewAabbIso(aabb, projection) ==
    [position |-> AabbCenter(aabb), projection |-> projection]

\* Camera::visible: every corner of the AABB projects into [-1, 1] x [-1, 1].
visible(camera, aabb) ==
    \A c \in AabbCorners(aabb) :
        /\ 2 * Abs(c[1] - camera.position[1]) * camera.projection.height
              <= camera.projection.viewport_y * camera.projection.width
        /\ 2 * Abs(c[2] - camera.position[2]) <= camera.projection.viewport_y

(***************************************************************************)
(* CameraController (controller.rs).  The pending input is a pan and a     *)
(* zoom; update_camera integrates it over dt.                              *)
(***************************************************************************)
\* The controller zooms out to a vertical extent of at most MaxViewport.
MaxViewport == 4
Steps == {-1, 0, 1}
NoInput == [pan |-> Vec(0, 0), zoom |-> 0]
\* The pending input: nothing, a drag along one axis, or a scroll.
ControllerInputs ==
    {[pan |-> Vec(x, 0), zoom |-> 0] : x \in Steps}
    \cup {[pan |-> Vec(0, y), zoom |-> 0] : y \in Steps}
    \cup {[pan |-> Vec(0, 0), zoom |-> z] : z \in Steps}

update_camera(camera, input, dt) ==
    LET zoomed == camera.projection.viewport_y + input.zoom * dt
    IN  [camera EXCEPT
            !.position = Vec(camera.position[1] + input.pan[1] * dt,
                             camera.position[2] + input.pan[2] * dt),
            !.projection.viewport_y = IF zoomed < 1 THEN 1 ELSE zoomed]

(***************************************************************************)
(* Surface formats.  surface.get_capabilities(adapter).formats is a        *)
(* non-empty list of distinct texture formats.                             *)
(***************************************************************************)
\* The list has at most MaxFormats formats.
MaxFormats == 3
TextureFormats == {"Bgra8Unorm", "Bgra8UnormSrgb", "Rgba8UnormSrgb"}

\* TextureFormat::is_srgb
is_srgb(format) == format \in {"Bgra8UnormSrgb", "Rgba8UnormSrgb"}

SurfaceCapabilities ==
    {formats \in UNION {[1..n -> TextureFormats] : n \in 1..MaxFormats} :
        \A i, j \in 1..Len(formats) : formats[i] = formats[j] => i = j}

\* The capabilities of the scenarios that do not vary them.
SrgbFirst == <<"Bgra8UnormSrgb", "Bgra8Unorm">>

\* The format chosen, were it the first of the list whatever it is.
surface_format_first_listed(formats) == formats[1]

\* lib.rs:164-170  formats.iter().filter(|f| f.is_srgb()).next()
\*                     .unwrap_or(&formats[0])
surface_format(formats) ==
    LET srgb == SelectSeq(formats, is_srgb)
    IN  IF srgb # <<>> THEN srgb[1] ELSE formats[1]

(***************************************************************************)
(* WindowContext.                                                          *)
(***************************************************************************)
\* surface.configure(device, config): the surface takes the config's size;
\* configured lists the sizes configured by the event handler now running.
SurfaceConfigure(surface, config) ==
    [width |-> config.width, height |-> config.height,
     configured |-> Append(surface.configured, PhysicalSize(config.width, config.height))]

\* calls lists, in order, the calls made by the event handler now running.
Calls(self, names) == [self EXCEPT !.calls = @ \o names]

\* SSAOTextures::new(device, width, height)
SSAOTextures(width, height) == [width |-> width, height |-> height]

\* WindowContext::new, were it to take a window's size as it is.
WindowContextNew_without_fallback(inner_size, volume, duration, scale, formats) ==
    LET size == inner_size
        config == [format |-> surface_format(formats),
                   width |-> size.width, height |-> size.height]
    IN  [surface_caps |-> formats,
         config |-> config,
         surface |-> SurfaceConfigure([configured |-> <<>>], config),
         scale_factor |-> scale,
         camera |-> NewAabbIso(volume.aabb,
                        OrthographicProjection(size.width, size.height,
                                               AabbDiameter(volume.aabb))),
         controller |-> [left_mouse_pressed |-> FALSE, right_mouse_pressed |-> FALSE],
         ui_visible |-> TRUE,
         volume |-> volume,
         render_settings |-> [time |-> 0, render_iso |-> FALSE, ssao |-> FALSE,
                              gamma_correction |-> ~is_srgb(config.format)],
         animation_duration |-> duration,
         playing |-> TRUE,
         ssao_textures |-> SSAOTextures(config.width, config.height),
         max_inner_size |-> Some(PhysicalSize(max_texture_dimension_2d,
                                              max_texture_dimension_2d)),
         calls |-> <<>>]

\* WindowContext::new
WindowContextNew(inner_size, volume, duration, scale, formats) ==
    LET size == IF inner_size.width = 0 \/ inner_size.height = 0
                THEN PhysicalSize(DefaultWidth, DefaultHeight)
                ELSE inner_size
        config == [format |-> surface_format(formats),
                   width |-> size.width, height |-> size.height]
    IN  [surface_caps |-> formats,
         config |-> config,
         surface |-> SurfaceConfigure([configured |-> <<>>], config),
         scale_factor |-> scale,
         camera |-> NewAabbIso(volume.aabb,
                        OrthographicProjection(size.width, size.height,
                                               AabbDiameter(volume.aabb))),
         controller |-> [left_mouse_pressed |-> FALSE, right_mouse_pressed |-> FALSE],
         ui_visible |-> TRUE,
         volume |-> volume,
         render_settings |-> [time |-> 0, render_iso |-> FALSE, ssao |-> FALSE,
                              gamma_correction |-> ~is_srgb(config.format)],
         animation_duration |-> duration,
         playing |-> TRUE,
         ssao_textures |-> SSAOTextures(config.width, config.height),
         max_inner_size |-> Some(PhysicalSize(max_texture_dimension_2d,
                                              max_texture_dimension_2d)),
         calls |-> <<>>]

\* resize, were it to store any scale factor it is given.
resize_any_scale_factor(self, new_size, scale_factor) ==
    LET sized ==
    IF new_size.width > 0 /\ new_size.height > 0
    THEN LET config == [self.config EXCEPT !.width = new_size.width,
                                           !.height = new_size.height]
         IN  [self EXCEPT
                !.config = config,
                !.camera.projection =
                    ProjectionResize(self.camera.projection,
                                     new_size.width, new_size.height),
                !.surface = SurfaceConfigure(self.surface, config),
                !.ssao_textures = SSAOTextures(new_size.width, new_size.height),
                !.calls = @ \o <<"surface.configure">>]
    ELSE self
    IN  IF scale_factor # None
        THEN [sized EXCEPT !.scale_factor = scale_factor[1]]
        ELSE sized

\* resize, were its size check to pass when either dimension is positive.
resize_either_dimension(self, new_size, scale_factor) ==
    LET sized ==
    IF new_size.width > 0 \/ new_size.height > 0
    THEN LET config == [self.config EXCEPT !.width = new_size.width,
                                           !.height = new_size.height]
         IN  [self EXCEPT
                !.config = config,
                !.camera.projection =
                    ProjectionResize(self.camera.projection,
                                     new_size.width, new_size.height),
                !.surface = SurfaceConfigure(self.surface, config),
                !.ssao_textures = SSAOTextures(new_size.width, new_size.height),
                !.calls = @ \o <<"surface.configure">>]
    ELSE self
    IN  IF scale_factor # None /\ scale_factor[1] > 0
        THEN [sized EXCEPT !.scale_factor = scale_factor[1]]
        ELSE sized

\* resize, were it to keep the SSAO textures it has.
resize_keeps_ssao_textures(self, new_size, scale_factor) ==
    LET sized ==
    IF new_size.width > 0 /\ new_size.height > 0
    THEN LET config == [self.config EXCEPT !.width = new_size.width,
                                           !.height = new_size.height]
         IN  [self EXCEPT
                !.config = config,
                !.camera.projection =
                    ProjectionResize(self.camera.projection,
                                     new_size.width, new_size.height),
                !.surface = SurfaceConfigure(self.surface, config),
                !.calls = @ \o <<"surface.configure">>]
    ELSE self
    IN  IF scale_factor # None /\ scale_factor[1] > 0
        THEN [sized EXCEPT !.scale_factor = scale_factor[1]]
        ELSE sized

\* WindowContext::resize
resize(self, new_size, scale_factor) ==
    LET sized ==
            IF new_size.width > 0 /\ new_size.height > 0
            THEN LET config == [self.config EXCEPT !.width = new_size.width,
                                                   !.height = new_size.height]
                 IN  [self EXCEPT
                        !.config = config,
                        !.camera.projection =
                            ProjectionResize(self.camera.projection,
                                             new_size.width, new_size.height),
                        !.surface = SurfaceConfigure(self.surface, config),
                        !.ssao_textures = SSAOTextures(new_size.width, new_size.height),
                        !.calls = @ \o <<"surface.configure">>]
            ELSE self
    IN  IF scale_factor # None /\ scale_factor[1] > 0
        THEN [sized EXCEPT !.scale_factor = scale_factor[1]]
        ELSE sized

\* What File::open and Volume::load make of a dropped file: Some(volume), or
\* None when opening or decoding fails.
LoadResults == {None} \cup {Some(v) : v \in Volumes}

\* load_file, were it to replace the AABB and keep the old volume's timesteps.
load_file_keeps_timesteps(self, loaded) ==
    IF loaded = None
    THEN [self |-> self, result |-> "Err"]
    ELSE [self |-> [self EXCEPT
                      !.volume.aabb = loaded[1].aabb,
                      !.camera.projection =
                          ProjectionResize(self.camera.projection,
                                           self.config.width, self.config.height)],
          result |-> "Ok"]

\* load_file, were it to centre the camera on the volume it loads.
load_file_recentres(self, loaded) ==
    IF loaded = None
    THEN [self |-> self, result |-> "Err"]
    ELSE [self |-> [self EXCEPT
                      !.volume = loaded[1],
                      !.camera.position = AabbCenter(loaded[1].aabb),
                      !.camera.projection =
                          ProjectionResize(self.camera.projection,
                                           self.config.width, self.config.height)],
          result |-> "Ok"]

\* WindowContext::load_file
load_file(self, loaded) ==
    IF loaded = None
    THEN [self |-> self, result |-> "Err"]
    ELSE [self |-> [self EXCEPT
                      !.volume = loaded[1],
                      !.camera.projection =
                          ProjectionResize(self.camera.projection,
                                           self.config.width, self.config.height)],
          result |-> "Ok"]

\* The time advance, were it not to take the fractional part.
AdvanceTime_without_fract(time, dt, duration) ==
    FloatAdd(time, FloatDiv(AsSecsF32(dt), AsSecsF32(duration)))

\* lib.rs:298-299  time += dt / animation_duration; time = time.fract()
AdvanceTime(time, dt, duration) ==
    FloatFract(FloatAdd(time, FloatDiv(AsSecsF32(dt), AsSecsF32(duration))))

\* Whether AdvanceTime rounds none of its intermediate results.
AdvanceExact(time, dt, duration) ==
    /\ IsExact(dt * FloatOne, 1)
    /\ IsExact(duration * FloatOne, 1)
    /\ IsExact(AsSecsF32(dt) * FloatOne, AsSecsF32(duration))
    /\ IsExact(time + FloatDiv(AsSecsF32(dt), AsSecsF32(duration)), 1)

\* update, were it to advance the time of a volume of a single timestep too.
update_ignores_timesteps(self, dt, input) ==
    LET old_camera == self.camera
        camera == update_camera(self.camera, input, dt)
        checked == IF ~visible(camera, self.volume.aabb) THEN old_camera ELSE camera
        advances == self.playing
    IN  [self EXCEPT
            !.camera = checked,
            !.render_settings.time =
                IF advances THEN AdvanceTime(@, dt, self.animation_duration) ELSE @,
            !.calls = @ \o <<"update_camera", "visible">>
                        \o (IF advances THEN <<"advance_time">> ELSE <<>>)]

\* update, were it to restore only the position of the snapshot.
update_restores_position(self, dt, input) ==
    LET old_camera == self.camera
        camera == update_camera(self.camera, input, dt)
        checked == IF ~visible(camera, self.volume.aabb)
                   THEN [camera EXCEPT !.position = old_camera.position]
                   ELSE camera
        advances == self.playing /\ self.volume.timesteps > 1
    IN  [self EXCEPT
            !.camera = checked,
            !.render_settings.time =
                IF advances THEN AdvanceTime(@, dt, self.animation_duration) ELSE @,
            !.calls = @ \o <<"update_camera", "visible">>
                        \o (IF advances THEN <<"advance_time">> ELSE <<>>)]

\* WindowContext::update
update(self, dt, input) ==
    LET old_camera == self.camera
        camera == update_camera(self.camera, input, dt)
        checked == IF ~visible(camera, self.volume.aabb) THEN old_camera ELSE camera
        advances == self.playing /\ self.volume.timesteps > 1
    IN  [self EXCEPT
            !.camera = checked,
            !.render_settings.time =
                IF advances THEN AdvanceTime(@, dt, self.animation_duration) ELSE @,
            !.calls = @ \o <<"update_camera", "visible">>
                        \o (IF advances THEN <<"advance_time">> ELSE <<>>)]

(***************************************************************************)
(* The UI (ui.rs): ui::ui(self) reads and writes the state the engine      *)
(* exposes to it.                                                          *)
(***************************************************************************)
UiInputs == {"none", "render_iso", "ssao", "playing"}

ui(self, ui_input) ==
    CASE ui_input = "render_iso" ->
            [self EXCEPT !.render_settings.render_iso = ~@]
      [] ui_input = "ssao" -> [self EXCEPT !.render_settings.ssao = ~@]
      [] ui_input = "playing" -> [self EXCEPT !.playing = ~@]
      [] OTHER -> self

(***************************************************************************)
(* Render passes.  A pass has a label, its colour attachments (view, load  *)
(* op, store op) and the textures it samples.                              *)
(***************************************************************************)
Attachment(view, load, store) == [view |-> view, load |-> load, store |-> store]

\* lib.rs:354-375, the pass renderer.render draws into
VolumePass ==
    [label |-> "render pass",
     color_attachments |-> <<Attachment("view_rgb", "Clear", "Store"),
                             Attachment("normal_depth", "Load", "Store")>>,
     samples |-> {"volume", "cmap"}]

\* The pass SSAO::render encodes (ssoa.rs): it samples the normal/depth
\* texture and blends the occlusion into the colour attachment.
SsaoPass ==
    [label |-> "ssao",
     color_attachments |-> <<Attachment("view_rgb", "Load", "Store")>>,
     samples |-> {"normal_depth"}]

\* lib.rs:390-401
UiPass ==
    [label |-> "render pass ui",
     color_attachments |-> <<Attachment("view_rgb", "Load", "Store")>>,
     samples |-> {}]

SurfaceErrors == {"Lost", "OutOfMemory", "Timeout", "Outdated"}
AcquireResults == {"Ok"} \cup SurfaceErrors

\* The SSAO switch, were either flag to suffice.
ssao_enabled_by_either(render_settings) ==
    render_settings.render_iso \/ render_settings.ssao

\* The SSAO switch, were render_iso alone to decide it.
ssao_enabled_by_iso(render_settings) == render_settings.render_iso

\* lib.rs:379  self.render_settings.render_iso && self.render_settings.ssao
ssao_enabled(render_settings) == render_settings.render_iso /\ render_settings.ssao

\* The calls of render, were the SSAO pass to come before the volume pass.
render_calls_ssao_first(has_ui, do_ssao) ==
    <<"get_current_texture">>
    \o (IF has_ui THEN <<"ui.begin_frame", "ui.prepare">> ELSE <<>>)
    \o <<"prepare">>
    \o (IF do_ssao THEN <<"ssao">> ELSE <<>>)
    \o <<"render">>
    \o (IF has_ui THEN <<"ui.render", "ui.cleanup">> ELSE <<>>)
    \o <<"submit", "present">>

\* The calls of render, were it to present without submitting.
render_calls_without_submit(has_ui, do_ssao) ==
    <<"get_current_texture">>
    \o (IF has_ui THEN <<"ui.begin_frame", "ui.prepare">> ELSE <<>>)
    \o <<"prepare", "render">>
    \o (IF do_ssao THEN <<"ssao">> ELSE <<>>)
    \o (IF has_ui THEN <<"ui.render", "ui.cleanup">> ELSE <<>>)
    \o <<"present">>

\* lib.rs:309-412  the calls render makes once it has the surface texture.
render_calls(has_ui, do_ssao) ==
    <<"get_current_texture">>
    \o (IF has_ui THEN <<"ui.begin_frame", "ui.prepare">> ELSE <<>>)
    \o <<"prepare", "render">>
    \o (IF do_ssao THEN <<"ssao">> ELSE <<>>)
    \o (IF has_ui THEN <<"ui.render", "ui.cleanup">> ELSE <<>>)
    \o <<"submit", "present">>

\* The passes of render, were the UI pass issued in every frame.
render_passes_with_ui_always(has_ui, do_ssao) ==
    <<VolumePass>>
    \o (IF do_ssao THEN <<SsaoPass>> ELSE <<>>)
    \o <<UiPass>>

\* lib.rs:353-410  the passes render encodes and submits.
render_passes(has_ui, do_ssao) ==
    <<VolumePass>>
    \o (IF do_ssao THEN <<SsaoPass>> ELSE <<>>)
    \o (IF has_ui THEN <<UiPass>> ELSE <<>>)

\* render, were it to acquire the surface texture without its size check.
render_without_size_check(self, window_size, acquire, ui_input) ==
    LET has_ui == self.ui_visible
        with_ui == IF has_ui THEN ui(self, ui_input) ELSE self
        do_ssao == ssao_enabled(with_ui.render_settings)
    IN  IF acquire # "Ok"
        THEN [self |-> Calls(self, <<"get_current_texture">>), result |-> acquire,
              submitted |-> <<>>, presented |-> FALSE]
        ELSE [self |-> Calls(with_ui, render_calls(has_ui, do_ssao)),
              result |-> "Ok",
              submitted |-> render_passes(has_ui, do_ssao),
              presented |-> TRUE]

\* WindowContext::render.  acquire is what surface.get_current_texture returns.
render(self, window_size, acquire, ui_input) ==
    LET sized == IF window_size.width # self.config.width
                    \/ window_size.height # self.config.height
                 THEN resize(self, window_size, None)
                 ELSE self
        has_ui == self.ui_visible
        with_ui == IF has_ui THEN ui(sized, ui_input) ELSE sized
        do_ssao == ssao_enabled(with_ui.render_settings)
    IN  IF acquire # "Ok"
        THEN [self |-> Calls(sized, <<"get_current_texture">>), result |-> acquire,
              submitted |-> <<>>, presented |-> FALSE]
        ELSE [self |-> Calls(with_ui, render_calls(has_ui, do_ssao)),
              result |-> "Ok",
              submitted |-> render_passes(has_ui, do_ssao),
              presented |-> TRUE]

(***************************************************************************)
(* The event loop of open_window.                                          *)
(***************************************************************************)
VARIABLES
    state,           \* the WindowContext
    window_size,     \* state.window.inner_size()
    no_vsync,        \* config.no_vsync
    exit_requested,  \* target.exit() was called
    redraw_pending,  \* a RedrawRequested event is due
    control_flow,    \* the event loop's control flow
    anim,            \* the animation so far: ticks advanced, and whether exactly
    last_result,     \* what render returned to the last handled RedrawRequested
    ev,              \* the event the last step dispatched
    frame            \* Some(what the RedrawRequested handler did) when the last
                     \* step ran it, None otherwise

vars == <<state, window_size, no_vsync, exit_requested, redraw_pending,
          control_flow, anim, last_result, ev, frame>>

ScaleFactors == {1, 2}
Durations == 1..MaxDuration

\* A new event is dispatched: the lists of the last handler's calls are emptied.
BeginEvent(self) == [self EXCEPT !.calls = <<>>, !.surface.configured = <<>>]

\* The state after WindowContext::new, for the given window, volume,
\* RenderConfig and surface capabilities.
InitOf(sizes, volumes, durations, vsync_offs, capabilities) ==
    \E size \in sizes, volume \in volumes, duration \in durations,
       vsync_off \in vsync_offs, formats \in capabilities :
        /\ window_size = size
        /\ state = WindowContextNew(size, volume, duration, 1, formats)
        /\ no_vsync = vsync_off
        /\ exit_requested = FALSE
        /\ redraw_pending = TRUE
        /\ control_flow = "Poll"
        /\ anim = [ticks |-> 0, exact |-> TRUE]
        /\ last_result = "None"
        /\ ev = [kind |-> "Init"]
        /\ frame = None

\* The same on a surface whose capabilities are SrgbFirst.
InitWith(sizes, volumes, durations, vsync_offs) ==
    InitOf(sizes, volumes, durations, vsync_offs, {SrgbFirst})

Init == InitOf(WindowSizes, Volumes, Durations, BOOLEAN, SurfaceCapabilities)

\* The window's inner size changes (the user resizes or minimizes the window).
WindowSizeChanges(size) ==
    /\ ~exit_requested
    /\ size # window_size
    /\ window_size' = size
    /\ state' = BeginEvent(state)
    /\ ev' = [kind |-> "WindowSizeChanges"]
    /\ frame' = None
    /\ UNCHANGED <<no_vsync, exit_requested, redraw_pending, control_flow, anim, last_result>>

WindowEvents == {"Resized", "ScaleFactorChanged", "CloseRequested", "KeyboardInput",
                 "DroppedFile", "RedrawRequested"}

\* lib.rs:460  an event that ui_renderer.on_event consumes reaches no handler.
Consumed(kind) ==
    /\ ~exit_requested
    /\ kind = "RedrawRequested" => redraw_pending
    /\ state' = BeginEvent(state)
    /\ redraw_pending' = IF kind = "RedrawRequested" THEN FALSE ELSE redraw_pending
    /\ ev' = [kind |-> "Consumed"]
    /\ frame' = None
    /\ UNCHANGED <<window_size, no_vsync, exit_requested, control_flow, anim, last_result>>

\* lib.rs:451-455  NewEvents(StartCause::ResumeTimeReached)
ResumeTimeReached ==
    /\ ~exit_requested
    /\ control_flow = "WaitUntil"
    /\ redraw_pending' = TRUE
    /\ state' = BeginEvent(state)
    /\ ev' = [kind |-> "ResumeTimeReached"]
    /\ frame' = None
    /\ UNCHANGED <<window_size, no_vsync, exit_requested, control_flow, anim, last_result>>

\* lib.rs:461-463  WindowEvent::Resized
Resized(physical_size) ==
    /\ ~exit_requested
    /\ state' = resize(BeginEvent(state), physical_size, None)
    /\ ev' = [kind |-> "Resized", size |-> physical_size]
    /\ frame' = None
    /\ UNCHANGED <<window_size, no_vsync, exit_requested, redraw_pending,
                   control_flow, anim, last_result>>

\* lib.rs:464-469  WindowEvent::ScaleFactorChanged
ScaleFactorChanged(scale_factor) ==
    /\ ~exit_requested
    /\ state' = [BeginEvent(state) EXCEPT !.scale_factor = scale_factor]
    /\ ev' = [kind |-> "ScaleFactorChanged"]
    /\ frame' = None
    /\ UNCHANGED <<window_size, no_vsync, exit_requested, redraw_pending,
                   control_flow, anim, last_result>>

\* lib.rs:470  WindowEvent::CloseRequested
CloseRequested ==
    /\ ~exit_requested
    /\ exit_requested' = TRUE
    /\ state' = BeginEvent(state)
    /\ ev' = [kind |-> "CloseRequested"]
    /\ frame' = None
    /\ UNCHANGED <<window_size, no_vsync, redraw_pending, control_flow, anim, last_result>>

Keys == {"KeyU", "KeyW"}

\* lib.rs:474-483  WindowEvent::KeyboardInput
KeyboardInput(key, pressed) ==
    /\ ~exit_requested
    /\ state' = IF key = "KeyU" /\ ~pressed
                THEN [BeginEvent(state) EXCEPT !.ui_visible = ~@]
                ELSE BeginEvent(state)
    /\ ev' = [kind |-> "KeyboardInput", key |-> key, pressed |-> pressed]
    /\ frame' = None
    /\ UNCHANGED <<window_size, no_vsync, exit_requested, redraw_pending,
                   control_flow, anim, last_result>>

MouseButtons == {"Left", "Right", "Middle"}

\* lib.rs:457-460, 492-498  WindowEvent::MouseInput.  consumed is what
\* ui_renderer.on_event returns for the event: a consumed event reaches no
\* handler.
MouseInput(button, pressed, consumed) ==
    /\ ~exit_requested
    /\ state' = IF consumed THEN BeginEvent(state)
                ELSE CASE button = "Left" ->
                            [BeginEvent(state) EXCEPT
                                !.controller.left_mouse_pressed = pressed]
                       [] button = "Right" ->
                            [BeginEvent(state) EXCEPT
                                !.controller.right_mouse_pressed = pressed]
                       [] OTHER -> BeginEvent(state)
    /\ ev' = [kind |-> "MouseInput", button |-> button, pressed |-> pressed,
              consumed |-> consumed]
    /\ frame' = None
    /\ UNCHANGED <<window_size, no_vsync, exit_requested, redraw_pending,
                   control_flow, anim, last_result>>

\* The scale factors WindowContext::resize can be called with: none, or one
\* that is negative, zero or positive.
ScaleArguments == {None} \cup {Some(s) : s \in {-1, 0, 1, 2}}

\* A call of WindowContext::resize with any arguments.  The handlers of
\* open_window all pass None for the scale factor, so this step is no part
\* of Next: it is there for what resize does with a scale factor.
ResizeCall(new_size, scale_factor) ==
    /\ ~exit_requested
    /\ state' = resize(BeginEvent(state), new_size, scale_factor)
    /\ ev' = [kind |-> "resize", size |-> new_size, scale_factor |-> scale_factor]
    /\ frame' = None
    /\ UNCHANGED <<window_size, no_vsync, exit_requested, redraw_pending,
                   control_flow, anim, last_result>>

\* lib.rs:499-503  WindowEvent::DroppedFile
DroppedFile(loaded) ==
    /\ ~exit_requested
    /\ state' = load_file(BeginEvent(state), loaded).self
    /\ ev' = [kind |-> "DroppedFile", loaded |-> loaded]
    /\ frame' = None
    /\ UNCHANGED <<window_size, no_vsync, exit_requested, redraw_pending,
                   control_flow, anim, last_result>>

\* The handler, were it never to request a redraw.
on_render_result_without_request(self, result, size, vsync_off) ==
    [self |-> IF result = "Lost" THEN resize(self, size, None) ELSE self,
     exit |-> result = "OutOfMemory",
     request_redraw |-> FALSE]

\* The handler, were it to do nothing about a lost surface.
on_render_result_ignores_lost(self, result, size, vsync_off) ==
    [self |-> self,
     exit |-> result = "OutOfMemory",
     request_redraw |-> vsync_off]

\* The handler, were it to treat OutOfMemory as it treats Lost.
on_render_result_recovers_oom(self, result, size, vsync_off) ==
    [self |-> IF result \in {"Lost", "OutOfMemory"}
              THEN resize(self, size, None)
              ELSE self,
     exit |-> FALSE,
     request_redraw |-> vsync_off]

\* The handler, were it to reconfigure an outdated surface as it does a lost one.
on_render_result_resizes_outdated(self, result, size, vsync_off) ==
    [self |-> IF result \in {"Lost", "Outdated"}
              THEN resize(self, size, None)
              ELSE self,
     exit |-> result = "OutOfMemory",
     request_redraw |-> vsync_off]

\* lib.rs:515-530  what the RedrawRequested handler does with render's result.
on_render_result(self, result, size, vsync_off) ==
    [self |-> IF result = "Lost" THEN resize(self, size, None) ELSE self,
     exit |-> result = "OutOfMemory",
     request_redraw |-> vsync_off]

\* lib.rs:504-531  WindowEvent::RedrawRequested
RedrawRequested(dt, input, acquire, ui_input) ==
    /\ ~exit_requested
    /\ redraw_pending
    /\ update_camera(state.camera, input, dt).projection.viewport_y <= MaxViewport
    /\ \E updated \in {update(BeginEvent(state), dt, input)} :
       \E rendered \in {render(updated, window_size, acquire, ui_input)} :
       \E handled \in {on_render_result(rendered.self, rendered.result,
                                        window_size, no_vsync)} :
           /\ state' = handled.self
           /\ exit_requested' = handled.exit
           /\ control_flow' = IF ~no_vsync THEN "WaitUntil" ELSE control_flow
           /\ redraw_pending' = handled.request_redraw
           /\ last_result' = rendered.result
           /\ frame' = Some([prev_result |-> last_result,
                             old_config |-> state.config,
                             ctrl_camera |-> update_camera(state.camera, input, dt),
                             updated_camera |-> updated.camera,
                             result |-> rendered.result,
                             submitted |-> rendered.submitted,
                             presented |-> rendered.presented])
    /\ anim' = IF state.playing /\ state.volume.timesteps > 1
               THEN [ticks |-> (anim.ticks + dt) % state.animation_duration,
                     exact |-> anim.exact
                               /\ AdvanceExact(state.render_settings.time, dt,
                                               state.animation_duration)]
               ELSE anim
    /\ ev' = [kind |-> "RedrawRequested", dt |-> dt]
    /\ UNCHANGED <<window_size, no_vsync>>

\* The user interface acts on a frame only when that frame draws it.
UiInputsOf(acquire) ==
    IF acquire = "Ok" /\ state.ui_visible THEN UiInputs ELSE {"none"}

Next ==
    \/ \E size \in WindowSizes : WindowSizeChanges(size)
    \/ \E kind \in WindowEvents : Consumed(kind)
    \/ ResumeTimeReached
    \/ \E size \in WindowSizes : Resized(size)
    \/ \E scale \in ScaleFactors : ScaleFactorChanged(scale)
    \/ CloseRequested
    \/ \E key \in Keys, pressed \in BOOLEAN : KeyboardInput(key, pressed)
    \/ \E button \in MouseButtons, pressed \in BOOLEAN, consumed \in BOOLEAN :
          MouseInput(button, pressed, consumed)
    \/ \E loaded \in LoadResults : DroppedFile(loaded)
    \/ \E dt \in 0..MaxDt, input \in ControllerInputs, acquire \in AcquireResults :
          \E ui_input \in UiInputsOf(acquire) :
            RedrawRequested(dt, input, acquire, ui_input)

\* The whole event loop.
Spec == Init /\ [][Next]_vars

(***************************************************************************)
(* Scenarios.  Each is the event loop with some of its inputs held fixed,  *)
(* so every behaviour of a scenario is a behaviour of Spec.                *)
(***************************************************************************)
\* Windowing: window sizes, surface errors, dropped files and the event
\* loop vary; the controller has no pending input, no time passes between
\* frames and the UI is left alone.
OneVolumePerAabb ==
    {v \in Volumes : v.timesteps = (IF v.aabb.min[1] = 0 THEN 1 ELSE 2)}

InitSurface == InitWith(WindowSizes, OneVolumePerAabb, {MaxDuration}, BOOLEAN)

NextSurface ==
    \/ \E size \in WindowSizes : WindowSizeChanges(size)
    \/ \E kind \in {"Resized", "RedrawRequested"} : Consumed(kind)
    \/ ResumeTimeReached
    \/ \E size \in WindowSizes : Resized(size)
    \/ CloseRequested
    \/ \E loaded \in {None} \cup {Some(v) : v \in OneVolumePerAabb} :
            DroppedFile(loaded)
    \/ \E acquire \in AcquireResults :
            RedrawRequested(0, NoInput, acquire, "none")

SpecSurface == InitSurface /\ [][NextSurface]_vars

\* Frames: the UI's switches, the U key, the volume's timesteps and surface
\* errors vary; the window keeps its size, the controller has no pending
\* input and no time passes between frames.
InitFrame ==
    InitWith({PhysicalSize(MaxWidth, MaxHeight)}, OneVolumePerAabb, {MaxDuration},
             {TRUE})

NextFrame ==
    \/ \E key \in Keys, pressed \in BOOLEAN : KeyboardInput(key, pressed)
    \/ \E loaded \in {Some(v) : v \in OneVolumePerAabb} : DroppedFile(loaded)
    \/ \E acquire \in AcquireResults :
          \E ui_input \in UiInputsOf(acquire) :
            RedrawRequested(0, NoInput, acquire, ui_input)

SpecFrame == InitFrame /\ [][NextFrame]_vars

\* Camera control: the controller's input, dt, the window's aspect ratio and
\* the volume vary; the volumes have a single timestep, so the animation
\* stands still, and the UI is left alone.  Time passes between frames
\* (dt > 0): with dt = 0 the controller leaves the camera as it is.
StillVolumes == {v \in Volumes : v.timesteps = 1}
VisibleSizes == {size \in WindowSizes : size.width > 0 /\ size.height > 0}

InitCamera == InitWith(VisibleSizes, StillVolumes, {MaxDuration}, {TRUE})

NextCamera ==
    \/ \E size \in VisibleSizes : WindowSizeChanges(size)
    \/ \E loaded \in {Some(v) : v \in StillVolumes} : DroppedFile(loaded)
    \/ \E dt \in 1..MaxDt, input \in ControllerInputs :
            RedrawRequested(dt, input, "Ok", "none")

SpecCamera == InitCamera /\ [][NextCamera]_vars

\* Animation: dt, the animation's duration, the play/pause button and the
\* volume's timesteps vary; the window keeps its size and the camera stands
\* still.
SameAabb == {v \in Volumes : v.aabb.min[1] = 0}

InitAnimation ==
    InitWith({PhysicalSize(MaxWidth, MaxHeight)}, SameAabb, Durations, {TRUE})

NextAnimation ==
    \/ \E loaded \in {Some(v) : v \in SameAabb} : DroppedFile(loaded)
    \/ \E dt \in 0..MaxDt, acquire \in {"Ok", "Timeout"} :
          \E ui_input \in UiInputsOf(acquire) \cap {"none", "playing"} :
            RedrawRequested(dt, NoInput, acquire, ui_input)

SpecAnimation == InitAnimation /\ [][NextAnimation]_vars

\* Aspect ratios: the window is built in landscape, square or portrait
\* format (its height goes up to MaxWidth, beyond the heights of the other
\* scenarios), and the controller's input and dt vary.
AspectSizes == {PhysicalSize(w, h) : w \in 1..MaxWidth, h \in 1..MaxWidth}

InitAspect == InitWith(AspectSizes, StillVolumes, {MaxDuration}, {TRUE})

NextAspect ==
    \/ \E loaded \in {Some(v) : v \in StillVolumes} : DroppedFile(loaded)
    \/ \E dt \in 1..MaxDt, input \in ControllerInputs :
            RedrawRequested(dt, input, "Ok", "none")

SpecAspect == InitAspect /\ [][NextAspect]_vars

\* Formats: the surface's capabilities vary; the surface is resized and
\* lost, files are dropped and the animation runs.
InitFormat ==
    InitOf({PhysicalSize(MaxWidth, MaxHeight)}, SameAabb, {MaxDuration}, {TRUE},
           SurfaceCapabilities)

NextFormat ==
    \/ \E size \in WindowSizes : Resized(size)
    \/ \E loaded \in {Some(v) : v \in SameAabb} : DroppedFile(loaded)
    \/ \E dt \in {0, 1}, acquire \in {"Ok", "Lost"} :
            RedrawRequested(dt, NoInput, acquire, "none")

SpecFormat == InitFormat /\ [][NextFormat]_vars

\* Input: mouse buttons and keys are pressed and released, over the volume
\* and over the UI, between frames that succeed or time out.
InitInput ==
    InitWith({PhysicalSize(MaxWidth, MaxHeight)}, StillVolumes, {MaxDuration}, BOOLEAN)

NextInput ==
    \/ \E button \in MouseButtons, pressed \in BOOLEAN, consumed \in BOOLEAN :
          MouseInput(button, pressed, consumed)
    \/ \E key \in Keys, pressed \in BOOLEAN : KeyboardInput(key, pressed)
    \/ \E acquire \in {"Ok", "Timeout"} :
          RedrawRequested(0, NoInput, acquire, "none")

SpecInput == InitInput /\ [][NextInput]_vars

\* The loop: frames succeed and fail, the window changes size, the UI is
\* hidden and shown and the window is closed, with and without vsync.  Once
\* the control flow waits for a time, that time is reached
\* (ResumeTimeReached is delivered) unless the loop exits before.
InitLoop ==
    InitWith({PhysicalSize(MaxWidth, MaxHeight)}, StillVolumes, {MaxDuration}, BOOLEAN)

NextLoop ==
    \/ \E size \in VisibleSizes : WindowSizeChanges(size)
    \/ Consumed("RedrawRequested")
    \/ ResumeTimeReached
    \/ CloseRequested
    \/ \E key \in Keys, pressed \in BOOLEAN : KeyboardInput(key, pressed)
    \/ \E acquire \in AcquireResults :
          RedrawRequested(0, NoInput, acquire, "none")

SpecLoop == InitLoop /\ [][NextLoop]_vars /\ WF_vars(ResumeTimeReached)

\* Scale factors: the window's scale factor changes, resize is called with
\* and without a scale factor, and the surface is resized and lost.
InitScale ==
    InitWith({PhysicalSize(MaxWidth, MaxHeight)}, StillVolumes, {MaxDuration}, {TRUE})

NextScale ==
    \/ \E scale \in ScaleFactors : ScaleFactorChanged(scale)
    \/ \E size \in WindowSizes, scale \in ScaleArguments : ResizeCall(size, scale)
    \/ \E size \in WindowSizes : Resized(size)
    \/ \E acquire \in {"Ok", "Lost"} :
          RedrawRequested(0, NoInput, acquire, "none")

SpecScale == InitScale /\ [][NextScale]_vars

(***************************************************************************)
(* Properties.                                                             *)
(***************************************************************************)
Range(seq) == {seq[i] : i \in 1..Len(seq)}

\* name is called before later by the handler that made calls.
CalledBefore(calls, name, later) ==
    \E i, j \in 1..Len(calls) : i < j /\ calls[i] = name /\ calls[j] = later

ZeroSized(size) == size.width = 0 \/ size.height = 0
SizeOf(config) == PhysicalSize(config.width, config.height)

\* The last step ran the RedrawRequested handler.
FrameRan == frame # None
\* The frame the RedrawRequested handler just ran.
Frame == frame[1]

\* A further frame is on its way: a redraw is requested, or the event loop
\* waits for the time to request one.
NextFrameDue == redraw_pending \/ control_flow = "WaitUntil"

\* C1: update keeps the controller's camera when it is visible and otherwise
\* restores the snapshot taken before update_camera, projection included; so
\* a camera that sees the volume's AABB before update sees it after update.
C1_UpdateRollsBack ==
    [][FrameRan' =>
          /\ Frame'.updated_camera =
                IF visible(Frame'.ctrl_camera, state.volume.aabb)
                THEN Frame'.ctrl_camera
                ELSE state.camera
          /\ visible(state.camera, state.volume.aabb)
                => visible(Frame'.updated_camera, state.volume.aabb)]_vars

\* The controller zoomed in until a corner left the view, and update restored
\* the snapshot with its projection.
C1_Witness ==
    /\ FrameRan
    /\ ~visible(Frame.ctrl_camera, state.volume.aabb)
    /\ Frame.ctrl_camera.projection # Frame.updated_camera.projection
    /\ visible(Frame.updated_camera, state.volume.aabb)

\* C2: a resize to a size with a zero width or height, from the Resized event
\* or from the frame's own calls, leaves the config's size, the projection and
\* the SSAO textures as they are and does not configure the surface.
C2_ZeroResizeIgnored ==
    [][(\/ ev'.kind = "Resized" /\ ZeroSized(ev'.size)
        \/ ev'.kind = "RedrawRequested" /\ ZeroSized(window_size))
       => /\ state'.config = state.config
          /\ state'.camera.projection = state.camera.projection
          /\ state'.ssao_textures = state.ssao_textures
          /\ state'.surface.configured = <<>>
          /\ state'.surface.width = state.surface.width
          /\ state'.surface.height = state.surface.height]_vars

\* A Resized event with a positive width and a zero height was handled.
C2_Witness ==
    /\ ev.kind = "Resized"
    /\ ev.size.width > 0
    /\ ev.size.height = 0
    /\ state.surface.configured = <<>>

\* C3: a resize to a size with positive width and height sets the config to
\* it, configures the surface and reallocates the SSAO textures at it; and in
\* every state the SSAO textures and the projection have the config's size.
C3_SizesFollowConfig ==
    /\ state.ssao_textures = SSAOTextures(state.config.width, state.config.height)
    /\ state.camera.projection.width = state.config.width
    /\ state.camera.projection.height = state.config.height
    /\ state.surface.width = state.config.width
    /\ state.surface.height = state.config.height
    /\ (ev.kind = "Resized" /\ ~ZeroSized(ev.size))
          => /\ SizeOf(state.config) = ev.size
             /\ state.surface.configured = <<ev.size>>

\* A Resized event to a size of positive width and height was handled.
C3_Witness ==
    /\ ev.kind = "Resized"
    /\ ~ZeroSized(ev.size)
    /\ ev.size.width # ev.size.height
    /\ state.surface.configured = <<ev.size>>
    /\ state.ssao_textures = SSAOTextures(ev.size.width, ev.size.height)

\* C4 as claimed: time equals fract(elapsed / animation_duration), elapsed
\* being the sum of the dt of the updates that advanced the animation.
C4_TimeIsClosedForm ==
    state.render_settings.time * state.animation_duration = anim.ticks * FloatOne

\* C4: time lies in [0, 1) in every state, and equals fract(elapsed /
\* animation_duration) as long as no float operation of update has rounded.
C4_TimeInUnitInterval ==
    /\ 0 <= state.render_settings.time
    /\ state.render_settings.time < FloatOne
    /\ anim.exact => C4_TimeIsClosedForm

\* An update with dt > 0 advanced the animation past its end, without
\* rounding, and time wrapped around to 0.
C4_Witness ==
    /\ FrameRan
    /\ ev.dt > 0
    /\ "advance_time" \in Range(state.calls)
    /\ anim.exact
    /\ anim.ticks = 0
    /\ state.render_settings.time = 0
    /\ state.animation_duration > 1

\* The steps of a frame, in the order of the specification.
FrameSteps == <<"update_camera", "visible", "advance_time", "prepare", "render",
                "ssao", "submit", "present">>
Rank(name) == CHOOSE i \in 1..Len(FrameSteps) : FrameSteps[i] = name
IsFrameStep(name) == name \in Range(FrameSteps)
StepsOf(calls) == SelectSeq(calls, IsFrameStep)

\* C5: the steps of a handled RedrawRequested occur in the order controller
\* update, visibility check, time advance, prepare, render, SSAO pass, submit,
\* present, each at most once; the first two always run; the steps from
\* prepare on all run when the surface texture is acquired (the SSAO pass
\* when enabled), and none of them runs when acquiring it fails.
C5_FrameStepsInOrder ==
    FrameRan =>
        LET steps == StepsOf(state.calls)
        IN  /\ \A i \in 1..(Len(steps) - 1) : Rank(steps[i]) < Rank(steps[i + 1])
            /\ Len(steps) >= 2
            /\ steps[1] = "update_camera"
            /\ steps[2] = "visible"
            /\ Frame.result = "Ok"
                  => {"prepare", "render", "submit", "present"} \subseteq Range(steps)
            /\ Frame.result # "Ok"
                  => Range(steps) \subseteq {"update_camera", "visible", "advance_time"}

\* A frame ran all eight steps.
C5_Witness ==
    /\ FrameRan
    /\ StepsOf(state.calls) = FrameSteps

SsaoEnabled == state.render_settings.render_iso /\ state.render_settings.ssao

\* C6: a frame that is submitted holds the SSAO pass exactly when render_iso
\* and ssao are both set when the frame reaches the check, that is after the
\* UI has run; the pass comes right after the volume pass, before the UI pass
\* and before the submit.
C6_SsaoPassIffEnabled ==
    (FrameRan /\ Frame.result = "Ok") =>
        /\ SsaoPass \in Range(Frame.submitted) <=> SsaoEnabled
        /\ "ssao" \in Range(state.calls) <=> SsaoEnabled
        /\ Frame.submitted[1] = VolumePass
        /\ SsaoEnabled =>
              /\ Frame.submitted[2] = SsaoPass
              /\ \A i \in 1..Len(Frame.submitted) :
                    Frame.submitted[i] = UiPass => i > 2
              /\ CalledBefore(state.calls, "render", "ssao")
              /\ CalledBefore(state.calls, "ssao", "submit")
              /\ "ui.render" \in Range(state.calls)
                    => CalledBefore(state.calls, "ssao", "ui.render")

\* A frame with the volume pass, the SSAO pass and the UI pass was submitted.
C6_Witness ==
    /\ FrameRan
    /\ Frame.result = "Ok"
    /\ SsaoEnabled
    /\ Frame.submitted = <<VolumePass, SsaoPass, UiPass>>

\* The passes of the frame that have texture among their colour attachments.
AttachedBy(passes, texture) ==
    {i \in 1..Len(passes) :
        \E k \in 1..Len(passes[i].color_attachments) :
            passes[i].color_attachments[k].view = texture}

\* C7 as claimed: with render_iso && ssao false, no pass of the frame loads,
\* stores or samples the normal/depth texture.
C7_NormalDepthUntouched ==
    (FrameRan /\ Frame.result = "Ok" /\ ~SsaoEnabled) =>
        /\ AttachedBy(Frame.submitted, "normal_depth") = {}
        /\ \A i \in 1..Len(Frame.submitted) :
              "normal_depth" \notin Frame.submitted[i].samples

\* C7: with render_iso && ssao false the frame holds no SSAO pass and no pass
\* samples the normal/depth texture; the volume pass alone has it as a colour
\* attachment, loaded and stored, as in every frame.
C7_SsaoPassSkipped ==
    (FrameRan /\ Frame.result = "Ok" /\ ~SsaoEnabled) =>
        /\ SsaoPass \notin Range(Frame.submitted)
        /\ "ssao" \notin Range(state.calls)
        /\ \A i \in 1..Len(Frame.submitted) :
              "normal_depth" \notin Frame.submitted[i].samples
        /\ AttachedBy(Frame.submitted, "normal_depth") = {1}
        /\ Frame.submitted[1].color_attachments[2] =
              Attachment("normal_depth", "Load", "Store")

\* A frame was submitted with render_iso set and ssao clear.
C7_Witness ==
    /\ FrameRan
    /\ Frame.result = "Ok"
    /\ state.render_settings.render_iso
    /\ ~state.render_settings.ssao
    /\ Len(Frame.submitted) = 2

C9_OutOfMemoryExits ==
    (FrameRan /\ Frame.result = "OutOfMemory") =>
        /\ exit_requested
        /\ ~CalledBefore(state.calls, "get_current_texture", "surface.configure")
        /\ ~CalledBefore(state.calls, "get_current_texture", "get_current_texture")
        /\ Frame.submitted = <<>>
        /\ ~Frame.presented

\* A frame failed with OutOfMemory in a window whose size the config had.
C9_Witness ==
    /\ FrameRan
    /\ Frame.result = "OutOfMemory"
    /\ exit_requested
    /\ state.surface.configured = <<>>
    /\ ~ZeroSized(window_size)

TransientErrors == {"Timeout", "Outdated"}

\* C10 as claimed: the frame after one that failed with Timeout or Outdated
\* configures the surface before it acquires the surface texture (here for a
\* window of positive width and height).
C10_NextFrameReconfigures ==
    [][(last_result \in TransientErrors /\ FrameRan' /\ ~ZeroSized(window_size))
       => CalledBefore(state'.calls, "surface.configure", "get_current_texture")]_vars

\* Whether a frame's size check configures the surface.
SizeCheckConfigures ==
    /\ window_size # SizeOf(state.config)
    /\ ~ZeroSized(window_size)

\* C10: after a frame that failed with Timeout or Outdated no exit is
\* requested, a next frame is due and the handler has configured nothing after
\* the failure; the next frame runs its size check before it acquires the
\* surface texture, and configures the surface exactly when the window's
\* inner size differs from the config's and has a positive width and height.
C10_TransientErrorsLeftToNextFrame ==
    /\ [](FrameRan /\ Frame.result \in TransientErrors
            => /\ ~exit_requested
               /\ NextFrameDue
               /\ ~CalledBefore(state.calls, "get_current_texture", "surface.configure"))
    /\ [][(last_result \in TransientErrors /\ FrameRan')
          => /\ CalledBefore(state'.calls, "surface.configure", "get_current_texture")
                <=> SizeCheckConfigures
             /\ Frame'.result = "Ok" => SizeOf(state'.config) = window_size
                                       \/ ZeroSized(window_size)]_vars

\* The frame after one that failed with Outdated configured the surface
\* before acquiring the surface texture.
C10_Witness ==
    /\ FrameRan
    /\ Frame.prev_result = "Outdated"
    /\ CalledBefore(state.calls, "surface.configure", "get_current_texture")
    /\ Frame.result = "Ok"

\* The calls of render that encode, submit or present.
EncodingCalls == {"ui.prepare", "prepare", "render", "ssao", "ui.render", "submit", "present"}

\* C11: a frame is whole or absent.  Either render returned an error: none
\* of the encoding calls was made, nothing was submitted and nothing
\* presented.  Or render returned Ok: the volume pass, then the SSAO pass
\* when enabled, then the UI pass when the UI is visible were submitted,
\* prepare came before render, render before submit and submit before
\* present, and the frame was presented.
C11_NoPartialFrame ==
    FrameRan =>
        \/ /\ Frame.result # "Ok"
           /\ Range(state.calls) \cap EncodingCalls = {}
           /\ Frame.submitted = <<>>
           /\ ~Frame.presented
        \/ /\ Frame.result = "Ok"
           /\ Frame.submitted =
                 <<VolumePass>>
                 \o (IF SsaoEnabled THEN <<SsaoPass>> ELSE <<>>)
                 \o (IF state.ui_visible THEN <<UiPass>> ELSE <<>>)
           /\ CalledBefore(state.calls, "prepare", "render")
           /\ CalledBefore(state.calls, "render", "submit")
           /\ CalledBefore(state.calls, "submit", "present")
           /\ state.calls[Len(state.calls)] = "present"
           /\ Frame.presented

\* A frame failed with Timeout after update had advanced nothing but the
\* controller: it made no encoding call.
C11_Witness ==
    /\ FrameRan
    /\ Frame.result = "Timeout"
    /\ Frame.prev_result = "Ok"
    /\ state.calls = <<"update_camera", "visible", "get_current_texture">>

\* C12 as claimed: the config's size and the SSAO textures' size are at most
\* the device's max_texture_dimension_2d (stated for the sizes that come from
\* the window, not for the 800x600 of a window without size).
C12_SizesWithinDeviceLimit ==
    SizeOf(state.config) # PhysicalSize(DefaultWidth, DefaultHeight) =>
        /\ state.config.width <= max_texture_dimension_2d
        /\ state.config.height <= max_texture_dimension_2d
        /\ state.ssao_textures.width <= max_texture_dimension_2d
        /\ state.ssao_textures.height <= max_texture_dimension_2d

\* C13 as claimed: the camera WindowContext::new builds for a window of
\* positive width and height sees the whole AABB of the volume.
C13_InitialViewContainsAabb ==
    ev.kind = "Init" => visible(state.camera, state.volume.aabb)

\* C14: a DroppedFile event whose file cannot be opened or decoded leaves the
\* WindowContext as it is; one whose file loads replaces the volume by the
\* loaded one, AABB and timesteps together, and leaves everything else as it
\* is.  Either way the event loop goes on as before.
C14_LoadFileAllOrNothing ==
    [][ev'.kind = "DroppedFile" =>
          /\ state' = IF ev'.loaded = None
                      THEN BeginEvent(state)
                      ELSE [BeginEvent(state) EXCEPT !.volume = ev'.loaded[1]]
          /\ exit_requested' = exit_requested
          /\ redraw_pending' = redraw_pending
          /\ control_flow' = control_flow]_vars

\* A file that could not be loaded was dropped on a window that shows a
\* volume of two timesteps, and the event loop runs on.
C14_Witness ==
    /\ ev.kind = "DroppedFile"
    /\ ev.loaded = None
    /\ state.volume.timesteps = 2
    /\ ~exit_requested

\* The places of the sRGB formats in a list of formats.
SrgbPlaces(formats) == {i \in 1..Len(formats) : is_srgb(formats[i])}

C17_TimeKeptWhenNotAdvancing ==
    [][/\ (FrameRan' /\ ~(state.playing /\ state.volume.timesteps > 1))
            => state'.render_settings.time = state.render_settings.time
       /\ ev'.kind = "DroppedFile"
            => state'.render_settings.time = state.render_settings.time]_vars

\* A frame with dt > 0 ran on a volume of a single timestep, loaded after
\* the animation of another volume had advanced, and time is not 0.
C17_Witness ==
    /\ FrameRan
    /\ ev.dt > 0
    /\ state.playing
    /\ state.volume.timesteps = 1
    /\ state.render_settings.time # 0
    /\ "advance_time" \notin Range(state.calls)

\* C18: after every frame, whatever events came before it and whether they
\* reached their handler, the config and the surface have the window's inner
\* size if that size has a positive width and height, every size the frame
\* configured being that size; and the config is the one the frame found if
\* the inner size has a zero dimension.
C18_ConfigFollowsWindow ==
    FrameRan =>
        IF ZeroSized(window_size)
        THEN state.config = Frame.old_config
        ELSE /\ SizeOf(state.config) = window_size
             /\ state.surface.width = window_size.width
             /\ state.surface.height = window_size.height
             /\ \A i \in 1..Len(state.surface.configured) :
                    state.surface.configured[i] = window_size

\* A frame found a config of another size than the window's, which has a
\* positive width and height and is not the size the window was built
\* with, and configured the surface once, before acquiring the texture.
C18_Witness ==
    /\ FrameRan
    /\ Frame.result = "Ok"
    /\ ~ZeroSized(window_size)
    /\ ~ZeroSized(SizeOf(Frame.old_config))
    /\ SizeOf(Frame.old_config) # window_size
    /\ SizeOf(Frame.old_config) # PhysicalSize(DefaultWidth, DefaultHeight)
    /\ state.surface.configured = <<window_size>>
    /\ CalledBefore(state.calls, "surface.configure", "get_current_texture")

\* C19 as claimed: the camera of every frame (the one prepare is given) sees
\* the AABB of the current volume; in this scenario every camera sees it at
\* construction.
C19_FrameCameraSeesAabb ==
    FrameRan => visible(state.camera, state.volume.aabb)

\* C19: a frame whose camera sees the AABB when the frame begins, and
\* whose size check does not resize the projection, gives prepare a camera
\* that sees it.  A DroppedFile event leaves the camera as it is, whatever
\* the AABB of the volume it loads, and a resize sets the projection's width
\* and height and nothing else of the camera: neither checks visible.
C19_VisibilityKeptByUpdateOnly ==
    [][/\ (FrameRan' /\ visible(state.camera, state.volume.aabb)
                     /\ ~SizeCheckConfigures)
            => visible(state'.camera, state'.volume.aabb)
       /\ FrameRan'
            => /\ state'.camera.position = Frame'.updated_camera.position
               /\ state'.camera.projection.viewport_y
                     = Frame'.updated_camera.projection.viewport_y
               /\ state'.volume = state.volume
       /\ ev'.kind = "DroppedFile" => state'.camera = state.camera]_vars

\* A file was dropped whose volume has an AABB the camera, left where it
\* was, does not see.
C19_Witness ==
    /\ ev.kind = "DroppedFile"
    /\ ev.loaded # None
    /\ state.camera.position # AabbCenter(state.volume.aabb)
    /\ ~visible(state.camera, state.volume.aabb)

\* C20: the config's width and height are positive in every state, and so
\* is every size the surface is configured with.
C20_ConfigSizePositive ==
    /\ state.config.width > 0
    /\ state.config.height > 0
    /\ \A i \in 1..Len(state.surface.configured) :
          ~ZeroSized(state.surface.configured[i])

\* A window built without a size got a Resized event with a zero dimension:
\* the config still has the 800x600 of construction.
C20_Witness ==
    /\ ev.kind = "Resized"
    /\ ZeroSized(ev.size)
    /\ ZeroSized(window_size)
    /\ SizeOf(state.config) = PhysicalSize(DefaultWidth, DefaultHeight)

\* C21 as claimed, for releases: after a MouseInput event that releases the
\* left (right) button, consumed by the UI or not, left_mouse_pressed
\* (right_mouse_pressed) is false.
C21_ReleaseClearsFlag ==
    [][(ev'.kind = "MouseInput" /\ ~ev'.pressed) =>
          /\ ev'.button = "Left" => ~state'.controller.left_mouse_pressed
          /\ ev'.button = "Right" => ~state'.controller.right_mouse_pressed]_vars

\* C22: after a handled RedrawRequested that did not request exit, a redraw
\* is requested again: without vsync by the handler itself, whatever render
\* returned; with vsync the handler has set the control flow to wait, and
\* the redraw is requested when the wait ends, unless exit is requested
\* before.
C22_FramesKeepComing ==
    /\ [](FrameRan /\ ~exit_requested /\ no_vsync => redraw_pending)
    /\ [](FrameRan /\ ~exit_requested /\ ~no_vsync => control_flow = "WaitUntil")
    /\ (FrameRan /\ ~exit_requested) ~> (redraw_pending \/ exit_requested)

\* With vsync, the wait after a frame that failed with Timeout has ended
\* and a redraw is requested.
C22_Witness ==
    /\ ev.kind = "ResumeTimeReached"
    /\ ~no_vsync
    /\ last_result = "Timeout"
    /\ redraw_pending
    /\ ~exit_requested

UiCalls == {"ui.begin_frame", "ui.prepare", "ui.render", "ui.cleanup"}

\* C24: ui_visible is true after construction; a handled KeyboardInput
\* event flips it when it is a release of key U and leaves it alone
\* otherwise, and no other step changes it; a submitted frame with
\* ui_visible false has made no call on the UI renderer and holds no UI
\* pass, while it holds the volume pass, holds the SSAO pass exactly when
\* render_iso and ssao are set, and was submitted and presented.
C24_UiVisibleToggle ==
    /\ [](ev.kind = "Init" => state.ui_visible)
    /\ [][state'.ui_visible =
             IF ev'.kind = "KeyboardInput" /\ ev'.key = "KeyU" /\ ~ev'.pressed
             THEN ~state.ui_visible
             ELSE state.ui_visible]_vars
    /\ []((FrameRan /\ Frame.result = "Ok" /\ ~state.ui_visible) =>
             /\ Range(state.calls) \cap UiCalls = {}
             /\ UiPass \notin Range(Frame.submitted)
             /\ Frame.submitted =
                   <<VolumePass>> \o (IF SsaoEnabled THEN <<SsaoPass>> ELSE <<>>)
             /\ CalledBefore(state.calls, "prepare", "render")
             /\ CalledBefore(state.calls, "submit", "present")
             /\ "ssao" \in Range(state.calls) <=> SsaoEnabled
             /\ Frame.presented)

\* A frame was submitted with the UI hidden and SSAO enabled: the volume
\* pass and the SSAO pass, and no call on the UI renderer.
C24_Witness ==
    /\ FrameRan
    /\ Frame.result = "Ok"
    /\ ~state.ui_visible
    /\ Frame.submitted = <<VolumePass, SsaoPass>>
    /\ Range(state.calls) \cap UiCalls = {}

====
